---------------------------- MODULE Spec2Model ----------------------------
(***************************************************************************)
(* Model of the customer-support workflow repository:                      *)
(*   - phase2_langgraph_implementation/01_basic_agent.py: the LangGraph    *)
(*     execution state machine (node steps, routing functions, graph).     *)
(*   - phase1_networkx_design/01_workflow_design.py: the workflow graph.   *)
(*   - phase1_networkx_design/02_bottleneck_analysis.py: betweenness       *)
(*     centrality and simple-path enumeration.                             *)
(*   - phase1_networkx_design/03_cost_analysis.py: simple-path             *)
(*     enumeration of the cost analysis.                                   *)
(* The library calls (LangGraph's invoke, networkx's betweenness and       *)
(* all_simple_paths) are modelled by what the library does at the call.    *)
(*                                                                         *)
(* Units: cost in thousandths of a dollar (0.002 -> 2), confidence and     *)
(* edge weights in hundredths (0.92 -> 92), time in milliseconds.          *)
(* Text is a sequence of one-character strings.                            *)
(***************************************************************************)
EXTENDS Integers, Sequences, FiniteSets, TLC

\* ------------------------------------------------------------------------
\* Bounds of the model
\* ------------------------------------------------------------------------

\* Longest query, in words drawn from Vocabulary.
MaxWords == 2

\* Largest measurement overhead (ms) added to a node's sleep when it reads
\* the clock: elapsed_time is the sleep time plus 0..MaxJitter.
MaxJitter == 1

\* ------------------------------------------------------------------------
\* Text: queries, str.lower() and the substring test `kw in query_lower`
\* ------------------------------------------------------------------------

UpperLetters == <<"B", "E", "I", "L">>
LowerLetters == <<"b", "e", "i", "l">>

\* str.lower() on one character.
LowerChar(c) ==
    IF \E i \in 1..Len(UpperLetters) : UpperLetters[i] = c
    THEN LowerLetters[CHOOSE i \in 1..Len(UpperLetters) : UpperLetters[i] = c]
    ELSE c

\* str.lower()
Lower(s) == [i \in 1..Len(s) |-> LowerChar(s[i])]

\* Python's `sub in s` for strings.
Contains(s, sub) ==
    \E i \in 0..(Len(s) - Len(sub)) :
        \A j \in 1..Len(sub) : s[i + j] = sub[j]

KwBill      == <<"b","i","l","l">>
KwCharge    == <<"c","h","a","r","g","e">>
KwPayment   == <<"p","a","y","m","e","n","t">>
KwTechnical == <<"t","e","c","h","n","i","c","a","l">>
KwError     == <<"e","r","r","o","r">>
KwBug       == <<"b","u","g">>

\* Words the queries are built from: keywords in lower, mixed and upper
\* case, words that embed a keyword, and a word with no keyword.
Vocabulary ==
    { KwBill,
      <<"B","I","L","L">>,
      <<"b","i","l","l","i","n","g">>,
      KwCharge,
      KwPayment,
      KwTechnical,
      <<"E","r","r","o","r">>,
      <<"d","e","b","u","g">>,
      <<"e","m","a","i","l">> }

RECURSIVE JoinWords(_)
\* " ".join(words)
JoinWords(ws) ==
    IF Len(ws) = 0 THEN << >>
    ELSE IF Len(ws) = 1 THEN ws[1]
    ELSE ws[1] \o <<" ">> \o JoinWords(Tail(ws))

Queries ==
    { JoinWords(ws) : ws \in UNION { [1..n -> Vocabulary] : n \in 1..MaxWords } }

UserIds == {"user_123"}

\* ------------------------------------------------------------------------
\* Execution state machine (01_basic_agent.py)
\* ------------------------------------------------------------------------

VARIABLES
    state,      \* the AgentState dict threaded through the nodes
    node,       \* the node the engine runs next: START, a node name, or END
    edge,       \* the last transition the engine took, <<from, to>>; << >> before the first
    trace,      \* the nodes the engine has run, in order
    step,       \* number of node steps the engine has run
    status,     \* "running", "done" or "error"
    error       \* the exception that ended the run, "" when none

execVars == <<state, node, edge, trace, step, status, error>>

\* The analysis script (02_bottleneck_analysis.py)
VARIABLES
    script,       \* the script that runs: "none", "bottleneck" or "cost"
    G,            \* the workflow graph the script loaded
    apc,          \* position of the script
    betweenness,  \* result of nx.betweenness_centrality, {} before it ran
    visited,      \* all_simple_paths: the nodes on the current path
    stack,        \* all_simple_paths: per path node, its children still to try
    all_paths     \* the simple paths emitted so far

anaVars == <<script, G, apc, betweenness, visited, stack, all_paths>>

\* The ranking of the bottleneck analysis (lines 37-59)
VARIABLES
    sorted_betweenness,  \* the <<node, score numerator>> pairs, highest score first
    bottleneck_node      \* sorted_betweenness[0][0], "" before the ranking

rankVars == <<sorted_betweenness, bottleneck_node>>

\* The cost analysis script (03_cost_analysis.py)
VARIABLES
    path_costs,   \* the cost of every path of all_paths, in the same order
    baseline,     \* avg_cost_per_request (as sum / count), min_cost, max_cost
    node_costs,   \* the cost breakdown by node
    raised        \* the exception that ended the script, "" when none

costVars == <<path_costs, baseline, node_costs, raised>>

\* The graph construction script (01_workflow_design.py)
VARIABLES
    nodes,        \* the list of (node_id, attrs) the script adds
    edges,        \* the list of (source, target, attrs) the script adds
    added         \* number of iterations of the add_node loop that have run

buildVars == <<nodes, edges, added>>

\* Several run_agent calls in progress at once
VARIABLES
    runs,         \* per call: its state dict, scheduled node and status
    heap          \* the list and dict objects the state dicts refer to

runVars == <<runs, heap>>

\* The what-if simulations of the two analysis scripts
VARIABLES
    optimization,  \* 03, lines 128-140: the top cost driver at half its cost
    cache_rows,    \* 03, lines 160-175: one row per cache hit rate
    path_times,    \* 02, lines 90-97: <<path, time, cost>> of every path, slowest first
    impact         \* 02, lines 130-149: one row per optimization scenario

simVars == <<optimization, cache_rows, path_times, impact>>

vars == <<execVars, anaVars, rankVars, costVars, buildVars, runVars, simVars>>

START == "__start__"
END   == "__end__"

EmptyDict == [k \in {} |-> ""]

\* run_agent's initial_state.
InitialState(query, user_id) ==
    [ query      |-> query,
      user_id    |-> user_id,
      intent     |-> "",
      context    |-> EmptyDict,
      response   |-> << >>,
      confidence |-> 0,
      cost       |-> 0,
      time_ms    |-> 0,
      path_taken |-> << >> ]

\* Faulty variant of Classify: the technical keywords are tested before the billing
\* keywords.
ClassifyTechnicalFirst(query) ==
    LET query_lower == Lower(query) IN
    IF Contains(query_lower, KwTechnical) \/ Contains(query_lower, KwError)
          \/ Contains(query_lower, KwBug)
    THEN "technical"
    ELSE IF Contains(query_lower, KwBill) \/ Contains(query_lower, KwCharge)
          \/ Contains(query_lower, KwPayment)
    THEN "billing"
    ELSE "account"

\* Faulty variant of Classify: the fallback intent is "general", for which no
\* specialist is registered.
ClassifyGeneralFallback(query) ==
    LET query_lower == Lower(query) IN
    IF Contains(query_lower, KwBill) \/ Contains(query_lower, KwCharge)
          \/ Contains(query_lower, KwPayment)
    THEN "billing"
    ELSE IF Contains(query_lower, KwTechnical) \/ Contains(query_lower, KwError)
          \/ Contains(query_lower, KwBug)
    THEN "technical"
    ELSE "general"

\* Faulty variant of Classify: the keyword "payment" is not tested.
ClassifyPaymentForgotten(query) ==
    LET query_lower == Lower(query) IN
    IF Contains(query_lower, KwBill) \/ Contains(query_lower, KwCharge)
    THEN "billing"
    ELSE IF Contains(query_lower, KwTechnical) \/ Contains(query_lower, KwError)
          \/ Contains(query_lower, KwBug)
    THEN "technical"
    ELSE "account"

\* The keyword classification of intent_classifier.
Classify(query) ==
    LET query_lower == Lower(query) IN
    IF Contains(query_lower, KwBill) \/ Contains(query_lower, KwCharge)
          \/ Contains(query_lower, KwPayment)
    THEN "billing"
    ELSE IF Contains(query_lower, KwTechnical) \/ Contains(query_lower, KwError)
          \/ Contains(query_lower, KwBug)
    THEN "technical"
    ELSE "account"

\* Faulty variant of intent_classifier: on a visit after the first the
\* intent is not derived from the query.
intent_classifier_reclassifies(s, elapsed_time) ==
    [s EXCEPT !.intent     = IF s.path_taken = << >> THEN Classify(s.query)
                             ELSE "account",
              !.cost       = @ + 2,
              !.time_ms    = @ + elapsed_time,
              !.path_taken = Append(@, "intent_classifier")]

intent_classifier(s, elapsed_time) ==
    [s EXCEPT !.intent     = Classify(s.query),
              !.cost       = @ + 2,
              !.time_ms    = @ + elapsed_time,
              !.path_taken = Append(@, "intent_classifier")]

LoadedContext ==
    [ user_tier    |-> "premium",
      past_issues  |-> <<"billing_q1", "technical_q2">>,
      last_contact |-> "2024-01-15" ]

context_enricher(s, elapsed_time) ==
    [s EXCEPT !.context    = LoadedContext,
              !.time_ms    = @ + elapsed_time,
              !.path_taken = Append(@, "context_enricher")]

\* Faulty variant of billing_agent: the cost added differs from the
\* cost_per_call of the workflow graph's billing_agent node.
billing_agent_other_cost(s, elapsed_time) ==
    [s EXCEPT !.response   = <<"Billing response for: ">> \o s.query,
              !.confidence = 92,
              !.cost       = @ + 16,
              !.time_ms    = @ + elapsed_time,
              !.path_taken = Append(@, "billing_agent")]

billing_agent(s, elapsed_time) ==
    [s EXCEPT !.response   = <<"Billing response for: ">> \o s.query,
              !.confidence = 92,
              !.cost       = @ + 15,
              !.time_ms    = @ + elapsed_time,
              !.path_taken = Append(@, "billing_agent")]

\* Faulty variant of technical_agent: the confidence written is below the
\* threshold of route_after_quality.
technical_agent_low_confidence(s, elapsed_time) ==
    [s EXCEPT !.response   = <<"Technical support for: ">> \o s.query,
              !.confidence = 40,
              !.cost       = @ + 20,
              !.time_ms    = @ + elapsed_time,
              !.path_taken = Append(@, "technical_agent")]

technical_agent(s, elapsed_time) ==
    [s EXCEPT !.response   = <<"Technical support for: ">> \o s.query,
              !.confidence = 88,
              !.cost       = @ + 20,
              !.time_ms    = @ + elapsed_time,
              !.path_taken = Append(@, "technical_agent")]

account_agent(s, elapsed_time) ==
    [s EXCEPT !.response   = <<"Account management for: ">> \o s.query,
              !.confidence = 90,
              !.cost       = @ + 12,
              !.time_ms    = @ + elapsed_time,
              !.path_taken = Append(@, "account_agent")]

\* Faulty variant of quality_check: the node forgets to record its visit.
quality_check_no_append(s, elapsed_time) ==
    [s EXCEPT !.cost       = @ + 3,
              !.time_ms    = @ + elapsed_time]

\* Faulty variant of quality_check: the node writes a confidence of its own.
quality_check_writes_confidence(s, elapsed_time) ==
    [s EXCEPT !.confidence = 100,
              !.cost       = @ + 3,
              !.time_ms    = @ + elapsed_time,
              !.path_taken = Append(@, "quality_check")]

quality_check(s, elapsed_time) ==
    [s EXCEPT !.cost       = @ + 3,
              !.time_ms    = @ + elapsed_time,
              !.path_taken = Append(@, "quality_check")]

\* Faulty variant of response_formatter: cost is assigned instead of accumulated.
response_formatter_cost_assigned(s, elapsed_time) ==
    [s EXCEPT !.response   = <<"[FORMATTED] ">> \o s.response,
              !.cost       = 1,
              !.time_ms    = @ + elapsed_time,
              !.path_taken = Append(@, "response_formatter")]

response_formatter(s, elapsed_time) ==
    [s EXCEPT !.response   = <<"[FORMATTED] ">> \o s.response,
              !.cost       = @ + 1,
              !.time_ms    = @ + elapsed_time,
              !.path_taken = Append(@, "response_formatter")]

\* f"{intent}_agent": the intent with the suffix "_agent", for every intent
\* string of the model (the initial "" and a fallback "general" included).
route_to_agent(s) ==
    CASE s.intent = "billing"   -> "billing_agent"
      [] s.intent = "technical" -> "technical_agent"
      [] s.intent = "account"   -> "account_agent"
      [] s.intent = "general"   -> "general_agent"
      [] s.intent = ""          -> "_agent"

\* Faulty variant of route_after_quality: the comparison is inverted.
route_after_quality_inverted(s) ==
    IF s.confidence >= 50 THEN "intent_classifier" ELSE "response_formatter"

\* Faulty variant of route_after_quality: a confidence of exactly 0.5 is
\* sent back as well.
route_after_quality_retry_at_threshold(s) ==
    IF s.confidence <= 50 THEN "intent_classifier" ELSE "response_formatter"

route_after_quality(s) ==
    IF s.confidence < 50 THEN "intent_classifier" ELSE "response_formatter"

\* ------------------------------------------------------------------------
\* The workflow graph (01_workflow_design.py)
\* ------------------------------------------------------------------------

\* Most edges of a generated graph (see SmallGraphs).
MaxEdges == 5

\* The graph of 01_workflow_design.py.  nodes and edges are in insertion
\* order; an edge is <<from, to, weight>>; cost is cost_per_call and time is
\* avg_time_ms.
ReferenceGraph ==
    [ nodes |-> << "input", "intent_classifier", "context_enricher",
                   "billing_agent", "technical_agent", "account_agent",
                   "response_formatter", "quality_check", "output" >>,
      edges |-> << <<"input", "intent_classifier", 100>>,
                   <<"intent_classifier", "context_enricher", 100>>,
                   <<"context_enricher", "billing_agent", 40>>,
                   <<"context_enricher", "technical_agent", 35>>,
                   <<"context_enricher", "account_agent", 25>>,
                   <<"billing_agent", "quality_check", 100>>,
                   <<"technical_agent", "quality_check", 100>>,
                   <<"account_agent", "quality_check", 100>>,
                   <<"quality_check", "response_formatter", 95>>,
                   <<"quality_check", "intent_classifier", 5>>,
                   <<"response_formatter", "output", 100>> >>,
      cost  |-> [ input |-> 0, intent_classifier |-> 2, context_enricher |-> 0,
                  billing_agent |-> 15, technical_agent |-> 20,
                  account_agent |-> 12, response_formatter |-> 1,
                  quality_check |-> 3, output |-> 0 ],
      time  |-> [ input |-> 5, intent_classifier |-> 800,
                  context_enricher |-> 200, billing_agent |-> 1500,
                  technical_agent |-> 2000, account_agent |-> 1200,
                  response_formatter |-> 100, quality_check |-> 500,
                  output |-> 5 ],
      time_weight |-> EmptyDict ]

\* Edges the generated graphs are built from, in insertion order.  They
\* contain cycles (a <-> b, input <-> a, output -> b), branches whose routes
\* have equal hop count but different weight, and a direct edge to output.
CandidateEdges ==
    << <<"input", "a", 50>>,
       <<"input", "b", 50>>,
       <<"a", "b", 25>>,
       <<"b", "a", 100>>,
       <<"a", "output", 100>>,
       <<"b", "output", 50>>,
       <<"a", "input", 100>>,
       <<"input", "output", 100>>,
       <<"output", "b", 25>> >>

RECURSIVE PickEdges(_, _)
\* The candidate edges with an index in S, from index i on, in order.
PickEdges(S, i) ==
    IF i > Len(CandidateEdges) THEN << >>
    ELSE IF i \in S THEN <<CandidateEdges[i]>> \o PickEdges(S, i + 1)
    ELSE PickEdges(S, i + 1)

SmallGraph(S) ==
    [ nodes |-> << "input", "a", "b", "output" >>,
      edges |-> PickEdges(S, 1),
      cost  |-> [ input |-> 0, a |-> 2, b |-> 5, output |-> 0 ],
      time  |-> [ input |-> 5, a |-> 100, b |-> 200, output |-> 5 ],
      time_weight |-> EmptyDict ]

SmallGraphs ==
    { SmallGraph(S) : S \in { T \in SUBSET (1..Len(CandidateEdges)) :
                                Cardinality(T) <= MaxEdges } }

\* The graphs the analysis is run on.
Graphs == {ReferenceGraph} \cup SmallGraphs

NodeSet(g) == { g.nodes[i] : i \in 1..Len(g.nodes) }

EdgeSet(g) == { <<g.edges[i][1], g.edges[i][2]>> : i \in 1..Len(g.edges) }

\* G[u][v]['weight']
Weight(g, u, v) ==
    g.edges[CHOOSE i \in 1..Len(g.edges) :
                g.edges[i][1] = u /\ g.edges[i][2] = v][3]

RECURSIVE SuccessorsFrom(_, _, _)
SuccessorsFrom(g, u, i) ==
    IF i > Len(g.edges) THEN << >>
    ELSE IF g.edges[i][1] = u
         THEN <<g.edges[i][2]>> \o SuccessorsFrom(g, u, i + 1)
         ELSE SuccessorsFrom(g, u, i + 1)

\* Faulty variant of Successors: the successors are iterated last edge first.
SuccessorsReversed(g, u) ==
    LET succ == SuccessorsFrom(g, u, 1) IN
    [i \in 1..Len(succ) |-> succ[Len(succ) + 1 - i]]

\* iter(G[u]): the successors of u, in edge insertion order.
Successors(g, u) == SuccessorsFrom(g, u, 1)

Predecessors(g, v) == { u \in NodeSet(g) : <<u, v>> \in EdgeSet(g) }

\* ------------------------------------------------------------------------
\* nx.betweenness_centrality (02_bottleneck_analysis.py, line 34)
\* ------------------------------------------------------------------------

RECURSIVE SumSeq(_, _)
\* Sum of f[seq[i]] over a sequence without repetitions.
SumSeq(f, seq) ==
    IF seq = << >> THEN 0 ELSE f[Head(seq)] + SumSeq(f, Tail(seq))

RECURSIVE GCD(_, _)
GCD(a, b) == IF b = 0 THEN a ELSE GCD(b, a % b)

Abs(x) == IF x < 0 THEN 0 - x ELSE x

\* Arithmetic on fractions [num, den] in lowest terms with den >= 0; a
\* fraction with den = 0 stands for the nan or inf of a float division by
\* 0.0.
Frac(n, d) ==
    IF d = 0 THEN [num |-> IF n = 0 THEN 0 ELSE IF n > 0 THEN 1 ELSE 0 - 1, den |-> 0]
    ELSE LET g == GCD(Abs(n), Abs(d))
             s == IF d < 0 THEN 0 - 1 ELSE 1
         IN  [num |-> s * (n \div g), den |-> Abs(d) \div g]

FracAdd(a, b) == Frac(a.num * b.den + b.num * a.den, a.den * b.den)

FracSub(a, b) == Frac(a.num * b.den - b.num * a.den, a.den * b.den)

FracMul(a, b) == Frac(a.num * b.num, a.den * b.den)

FracDiv(a, b) == Frac(a.num * b.den, a.den * b.num)

RECURSIVE LCMSeq(_)
LCMSeq(seq) ==
    IF seq = << >> THEN 1
    ELSE LET r == LCMSeq(Tail(seq)) IN (Head(seq) * r) \div GCD(Head(seq), r)

MinOf(S) == CHOOSE x \in S : \A y \in S : x <= y

MaxOf(S) == CHOOSE x \in S : \A y \in S : x >= y

\* Edge lengths of a search by hop count: every edge counts 1.
HopLength(g) == [e \in EdgeSet(g) |-> 1]

\* The lengths betweenness_centrality(G, weight='weight') gives the edges:
\* the edge attribute named by weight.
EdgeLength(g) == [e \in EdgeSet(g) |-> Weight(g, e[1], e[2])]

\* "No path": larger than every path length of the model.
Unreachable == 1000 * 1000

\* One round of relaxation of the distances d, with L[<<u, v>>] the length
\* of edge (u, v).
RelaxOnce(g, L, d) ==
    [v \in NodeSet(g) |->
        MinOf({d[v]} \cup { d[u] + L[<<u, v>>] :
                            u \in { p \in Predecessors(g, v) :
                                    d[p] < Unreachable } })]

RECURSIVE Relax(_, _, _, _)
\* The distances after k more rounds of relaxation of d.
Relax(g, L, d, k) ==
    IF k = 0 THEN d
    ELSE CHOOSE r \in { Relax(g, L, nd, k - 1) : nd \in {RelaxOnce(g, L, d)} } : TRUE

\* Shortest-path distance from s to every node.
Distances(g, L, s) ==
    Relax(g, L, [v \in NodeSet(g) |-> IF v = s THEN 0 ELSE Unreachable],
          Len(g.nodes) - 1)

\* sigma: the number of shortest paths from s to every node, given the
\* distances d from s.
PathCounts(g, L, s, d) ==
    LET sigma[v \in NodeSet(g)] ==
            IF v = s THEN 1
            ELSE IF d[v] >= Unreachable THEN 0
            ELSE SumSeq([u \in NodeSet(g) |->
                            IF /\ <<u, v>> \in EdgeSet(g)
                               /\ d[u] < Unreachable
                               /\ d[u] + L[<<u, v>>] = d[v]
                            THEN sigma[u] ELSE 0],
                        g.nodes)
    IN  [v \in NodeSet(g) |-> sigma[v]]

\* The distances between all pairs and the shortest-path counts of all
\* pairs: <<dist, sigma>> with dist[s][t] and sigma[s][t].
ShortestPaths(g, L) ==
    CHOOSE r \in { <<dist, [s \in NodeSet(g) |-> PathCounts(g, L, s, dist[s])]>> :
                   dist \in { [s \in NodeSet(g) |-> Distances(g, L, s)] } } : TRUE

\* Least common multiple of the shortest-path counts of the connected pairs.
CountsLCM(g, dist, sigma) ==
    LCMSeq([i \in 1..Len(g.nodes) |->
              LCMSeq([j \in 1..Len(g.nodes) |->
                  IF /\ i # j
                     /\ dist[g.nodes[i]][g.nodes[j]] < Unreachable
                  THEN sigma[g.nodes[i]][g.nodes[j]] ELSE 1])])

\* What the pair (s, t) adds to the score of v, times lcm: the number of
\* shortest s-t paths through v over the number of shortest s-t paths.
Through(dist, sigma, lcm, v, s, t) ==
    IF /\ s # v /\ t # v /\ s # t
       /\ dist[s][t] < Unreachable
       /\ dist[s][v] < Unreachable /\ dist[v][t] < Unreachable
       /\ dist[s][v] + dist[v][t] = dist[s][t]
    THEN sigma[s][v] * sigma[v][t] * (lcm \div sigma[s][t])
    ELSE 0

\* Faulty variant of Scores: the normalisation 1/((n-1)(n-2)) is left out.
ScoresUnnormalised(g, dist, sigma, lcm) ==
    [ num |-> [v \in NodeSet(g) |->
                 SumSeq([s \in NodeSet(g) |->
                            SumSeq([t \in NodeSet(g) |->
                                       Through(dist, sigma, lcm, v, s, t)],
                                   g.nodes)],
                        g.nodes)],
      den |-> lcm ]

Scores(g, dist, sigma, lcm) ==
    [ num |-> [v \in NodeSet(g) |->
                 SumSeq([s \in NodeSet(g) |->
                            SumSeq([t \in NodeSet(g) |->
                                       Through(dist, sigma, lcm, v, s, t)],
                                   g.nodes)],
                        g.nodes)],
      den |-> lcm * (Len(g.nodes) - 1) * (Len(g.nodes) - 2) ]

\* Betweenness of every node as a fraction: the score of v is
\* num[v] / den, where den contains the normalisation 1/((n-1)(n-2)) of a
\* directed graph.  Each ordered pair (s, t) gives v the fraction of the
\* shortest s-t paths that pass through v.
Betweenness(g, L) ==
    CHOOSE b \in UNION { { Scores(g, sp[1], sp[2], lcm) :
                           lcm \in {CountsLCM(g, sp[1], sp[2])} } :
                         sp \in {ShortestPaths(g, L)} } : TRUE

\* nx.betweenness_centrality(G, weight='weight')
betweenness_centrality(g) == Betweenness(g, EdgeLength(g))

\* ------------------------------------------------------------------------
\* nx.all_simple_paths (02_bottleneck_analysis.py, line 87)
\* ------------------------------------------------------------------------

Front(seq) == SubSeq(seq, 1, Len(seq) - 1)

\* Faulty variant of OnPath: the test is dropped.
OnPathNever(child, path) == FALSE

\* `child in visited`
OnPath(child, path) == \E i \in 1..Len(path) : path[i] = child

\* Faulty variant of PopStack: the exhausted iterator is left on the stack.
PopStackForgotten(stk) == stk

\* stack.pop()
PopStack(stk) == Front(stk)

\* cutoff = len(G) - 1
Cutoff(g) == Len(g.nodes) - 1

NoRepeat(path) ==
    \A i, j \in 1..Len(path) : i # j => path[i] # path[j]

\* ------------------------------------------------------------------------
\* sorted(..., reverse=True) and list.sort(reverse=True)
\* ------------------------------------------------------------------------

\* An item <<value, key>> is put behind every item of the descending
\* sequence whose key is not smaller.
InsertByKey(sorted, x) ==
    LET p == Cardinality({ i \in 1..Len(sorted) : sorted[i][2] >= x[2] }) IN
    SubSeq(sorted, 1, p) \o <<x>> \o SubSeq(sorted, p + 1, Len(sorted))

\* An item <<value, key>> is put before every item of the ascending
\* sequence whose key is larger.
InsertAscending(sorted, x) ==
    LET p == Cardinality({ i \in 1..Len(sorted) : sorted[i][2] <= x[2] }) IN
    SubSeq(sorted, 1, p) \o <<x>> \o SubSeq(sorted, p + 1, Len(sorted))

RECURSIVE SortedAscending(_)
SortedAscending(pairs) ==
    IF pairs = << >> THEN << >>
    ELSE InsertAscending(SortedAscending(Front(pairs)), pairs[Len(pairs)])

\* Faulty variant of SortedReverse: an ascending sort that is then reversed,
\* which also reverses the items with equal keys.
SortedThenReversed(pairs) ==
    LET asc == SortedAscending(pairs) IN
    [i \in 1..Len(asc) |-> asc[Len(asc) + 1 - i]]

RECURSIVE SortedReverse(_)
\* The items <<value, key>> by descending key; the sort is stable, so items
\* with equal keys keep their order.
SortedReverse(pairs) ==
    IF pairs = << >> THEN << >>
    ELSE InsertByKey(SortedReverse(Front(pairs)), pairs[Len(pairs)])

\* No simulation has run.
SimIdle ==
    /\ optimization = EmptyDict
    /\ cache_rows = << >>
    /\ path_times = << >>
    /\ impact = << >>

\* The analysis has not been started.
AnaIdle ==
    /\ script = "none"
    /\ G = ReferenceGraph
    /\ apc = "idle"
    /\ betweenness = EmptyDict
    /\ visited = << >>
    /\ stack = << >>
    /\ all_paths = << >>
    /\ sorted_betweenness = << >>
    /\ bottleneck_node = ""
    /\ path_costs = << >>
    /\ baseline = EmptyDict
    /\ node_costs = << >>
    /\ raised = ""
    /\ SimIdle

\* No graph is under construction.
BuildIdle ==
    /\ nodes = << >>
    /\ edges = << >>
    /\ added = 0

\* No concurrent run_agent calls are in progress.
RunsIdle ==
    /\ runs = << >>
    /\ heap = << >>

\* No agent execution is in progress.
ExecIdle ==
    /\ state = InitialState(<< >>, "")
    /\ node = START
    /\ edge = << >>
    /\ trace = << >>
    /\ step = 0
    /\ status = "idle"
    /\ error = ""

\* ------------------------------------------------------------------------
\* build_agent_graph: nodes, entry point, edges, conditional edges
\* ------------------------------------------------------------------------

Nodes ==
    { "intent_classifier", "context_enricher", "billing_agent",
      "technical_agent", "account_agent", "quality_check",
      "response_formatter" }

Specialists == { "billing_agent", "technical_agent", "account_agent" }

EntryPoint == "intent_classifier"

\* Faulty variant of StaticEdge: billing_agent is wired straight to the formatter.
StaticEdgeSkipsQuality(n) ==
    CASE n = "intent_classifier"  -> "context_enricher"
      [] n = "billing_agent"      -> "response_formatter"
      [] n = "technical_agent"    -> "quality_check"
      [] n = "account_agent"      -> "quality_check"
      [] n = "response_formatter" -> END

\* workflow.add_edge(n, target)
StaticEdge(n) ==
    CASE n = "intent_classifier"  -> "context_enricher"
      [] n = "billing_agent"      -> "quality_check"
      [] n = "technical_agent"    -> "quality_check"
      [] n = "account_agent"      -> "quality_check"
      [] n = "response_formatter" -> END

\* The path map of add_conditional_edges("context_enricher", route_to_agent, ...)
EnricherPathMap ==
    [ billing_agent   |-> "billing_agent",
      technical_agent |-> "technical_agent",
      account_agent   |-> "account_agent" ]

\* The path map of add_conditional_edges("quality_check", route_after_quality, ...)
QualityPathMap ==
    [ response_formatter |-> "response_formatter",
      intent_classifier  |-> "intent_classifier" ]

\* LangGraph's default recursion_limit: app.invoke(initial_state) is called
\* without a config, so a run that has not reached END after this many
\* steps is aborted with GraphRecursionError.
RecursionLimit == 25

\* elapsed_time = (time.time() - start_time) * 1000 around a sleep of
\* sleep_ms milliseconds.
Elapsed(sleep_ms) == { sleep_ms + j : j \in 0..MaxJitter }

CanRun(n) == status = "running" /\ node = n /\ step < RecursionLimit

\* The engine's bookkeeping after node n produced the state s2 and the
\* graph selected target.
Goto(n, s2, target) ==
    /\ state' = s2
    /\ node' = target
    /\ edge' = <<n, target>>
    /\ trace' = Append(trace, n)
    /\ step' = step + 1
    /\ status' = IF target = END THEN "done" ELSE "running"
    /\ error' = error
    /\ UNCHANGED <<anaVars, rankVars, costVars, buildVars, runVars, simVars>>

\* A conditional edge: key is what the routing function returned.
GotoBranch(n, s2, key, path_map) ==
    IF key \in DOMAIN path_map
    THEN Goto(n, s2, path_map[key])
    ELSE /\ state' = s2
         /\ trace' = Append(trace, n)
         /\ step' = step + 1
         /\ status' = "error"
         /\ error' = "KeyError"
         /\ UNCHANGED <<node, edge>>
         /\ UNCHANGED <<anaVars, rankVars, costVars, buildVars, runVars, simVars>>

\* app.invoke(initial_state): the entry point is scheduled.
Start ==
    /\ status = "running"
    /\ node = START
    /\ node' = EntryPoint
    /\ edge' = <<START, EntryPoint>>
    /\ UNCHANGED <<state, trace, step, status, error>>
    /\ UNCHANGED <<anaVars, rankVars, costVars, buildVars, runVars, simVars>>

IntentClassifier ==
    /\ CanRun("intent_classifier")
    /\ \E e \in Elapsed(100) :
          Goto("intent_classifier", intent_classifier(state, e),
               StaticEdge("intent_classifier"))

ContextEnricher ==
    /\ CanRun("context_enricher")
    /\ \E e \in Elapsed(50) :
          LET s2 == context_enricher(state, e) IN
          GotoBranch("context_enricher", s2, route_to_agent(s2), EnricherPathMap)

BillingAgent ==
    /\ CanRun("billing_agent")
    /\ \E e \in Elapsed(150) :
          Goto("billing_agent", billing_agent(state, e), StaticEdge("billing_agent"))

TechnicalAgent ==
    /\ CanRun("technical_agent")
    /\ \E e \in Elapsed(200) :
          Goto("technical_agent", technical_agent(state, e),
               StaticEdge("technical_agent"))

AccountAgent ==
    /\ CanRun("account_agent")
    /\ \E e \in Elapsed(120) :
          Goto("account_agent", account_agent(state, e), StaticEdge("account_agent"))

QualityCheck ==
    /\ CanRun("quality_check")
    /\ \E e \in Elapsed(50) :
          LET s2 == quality_check(state, e) IN
          GotoBranch("quality_check", s2, route_after_quality(s2), QualityPathMap)

ResponseFormatter ==
    /\ CanRun("response_formatter")
    /\ \E e \in Elapsed(10) :
          Goto("response_formatter", response_formatter(state, e),
               StaticEdge("response_formatter"))

\* run_agent(query): a fresh initial_state and the engine at START.
InitExec ==
    /\ \E q \in Queries, u \in UserIds : state = InitialState(q, u)
    /\ node = START
    /\ edge = << >>
    /\ trace = << >>
    /\ step = 0
    /\ status = "running"
    /\ error = ""

NextExec ==
    \/ Start
    \/ IntentClassifier
    \/ ContextEnricher
    \/ BillingAgent
    \/ TechnicalAgent
    \/ AccountAgent
    \/ QualityCheck
    \/ ResponseFormatter

Init == InitExec /\ AnaIdle /\ BuildIdle /\ RunsIdle

Next == NextExec

\* One execution of the agent with the node steps as implemented.
Spec == Init /\ [][Next]_vars

\* The engine keeps stepping while a node is scheduled.
FairSpec == Init /\ [][Next]_vars /\ WF_vars(Next)

\* ------------------------------------------------------------------------
\* Execution with a stubbed specialist confidence
\* ------------------------------------------------------------------------

\* Confidence values a stubbed specialist reports: below, at and above the
\* threshold of route_after_quality.
ForcedConfidence == {30, 50, 92}

ForcedSpecialist(n, s2) ==
    \E c \in ForcedConfidence :
        Goto(n, [s2 EXCEPT !.confidence = c], StaticEdge(n))

ForcedBillingAgent ==
    /\ CanRun("billing_agent")
    /\ \E e \in Elapsed(150) : ForcedSpecialist("billing_agent", billing_agent(state, e))

ForcedTechnicalAgent ==
    /\ CanRun("technical_agent")
    /\ \E e \in Elapsed(200) :
          ForcedSpecialist("technical_agent", technical_agent(state, e))

ForcedAccountAgent ==
    /\ CanRun("account_agent")
    /\ \E e \in Elapsed(120) : ForcedSpecialist("account_agent", account_agent(state, e))

\* The step limit of the engine: the run is aborted.
GraphRecursion ==
    /\ status = "running"
    /\ node \in Nodes
    /\ step >= RecursionLimit
    /\ status' = "error"
    /\ error' = "GraphRecursionError"
    /\ UNCHANGED <<state, node, edge, trace, step>>
    /\ UNCHANGED <<anaVars, rankVars, costVars, buildVars, runVars, simVars>>

\* run_agent(query) for the one-word queries, no analysis running.
InitForced ==
    /\ \E q \in Vocabulary, u \in UserIds : state = InitialState(q, u)
    /\ node = START
    /\ edge = << >>
    /\ trace = << >>
    /\ step = 0
    /\ status = "running"
    /\ error = ""
    /\ AnaIdle
    /\ BuildIdle
    /\ RunsIdle

NextForced ==
    \/ Start
    \/ IntentClassifier
    \/ ContextEnricher
    \/ ForcedBillingAgent
    \/ ForcedTechnicalAgent
    \/ ForcedAccountAgent
    \/ QualityCheck
    \/ ResponseFormatter
    \/ GraphRecursion

\* One execution in which the specialists' confidence is stubbed.
SpecForced == InitForced /\ [][NextForced]_vars

\* A fixed confidence per stubbed specialist: well below and just below the
\* threshold of route_after_quality, and at it.
StubbedConfidence ==
    [ billing_agent   |-> 30,
      technical_agent |-> 49,
      account_agent   |-> 50 ]

StubbedSpecialist(n, s2) ==
    Goto(n, [s2 EXCEPT !.confidence = StubbedConfidence[n]], StaticEdge(n))

StubbedBillingAgent ==
    /\ CanRun("billing_agent")
    /\ \E e \in Elapsed(150) : StubbedSpecialist("billing_agent", billing_agent(state, e))

StubbedTechnicalAgent ==
    /\ CanRun("technical_agent")
    /\ \E e \in Elapsed(200) :
          StubbedSpecialist("technical_agent", technical_agent(state, e))

StubbedAccountAgent ==
    /\ CanRun("account_agent")
    /\ \E e \in Elapsed(120) : StubbedSpecialist("account_agent", account_agent(state, e))

NextStubbed ==
    \/ Start
    \/ IntentClassifier
    \/ ContextEnricher
    \/ StubbedBillingAgent
    \/ StubbedTechnicalAgent
    \/ StubbedAccountAgent
    \/ QualityCheck
    \/ ResponseFormatter
    \/ GraphRecursion

\* One execution in which every specialist writes its own fixed stubbed
\* confidence on each visit.
SpecStubbed == InitForced /\ [][NextStubbed]_vars

\* ------------------------------------------------------------------------
\* Two run_agent calls whose node steps interleave
\* ------------------------------------------------------------------------

\* The two calls.
RunIds == {"first", "second"}

\* A call that has not been made.
NoCall ==
    [ state  |-> [InitialState(<< >>, "") EXCEPT !.context = 0, !.path_taken = 0],
      node   |-> START,
      status |-> "new" ]

\* Faulty variant of FreshRef: every call is handed the object of the first.
FirstRef(hp) == 1

\* A list display [] or dict display {} evaluates to a new object: its
\* reference is the next free place of the heap.
FreshRef(hp) == Len(hp) + 1

\* The state dict with the objects its references point to.
Deref(s) == [s EXCEPT !.context = heap[@], !.path_taken = heap[@]]

\* workflow.add_node(name, function)
NodeFunction(n, s, elapsed_time) ==
    CASE n = "intent_classifier"  -> intent_classifier(s, elapsed_time)
      [] n = "context_enricher"   -> context_enricher(s, elapsed_time)
      [] n = "billing_agent"      -> billing_agent(s, elapsed_time)
      [] n = "technical_agent"    -> technical_agent(s, elapsed_time)
      [] n = "account_agent"      -> account_agent(s, elapsed_time)
      [] n = "quality_check"      -> quality_check(s, elapsed_time)
      [] n = "response_formatter" -> response_formatter(s, elapsed_time)

\* The time.sleep of each node function, in milliseconds.
SleepMs ==
    [ intent_classifier |-> 100, context_enricher |-> 50, billing_agent |-> 150,
      technical_agent |-> 200, account_agent |-> 120, quality_check |-> 50,
      response_formatter |-> 10 ]

\* The node the graph selects after node n produced s2; "" when the key of
\* a conditional edge is not in its path map.
Target(n, s2) ==
    CASE n = "context_enricher" ->
             IF route_to_agent(s2) \in DOMAIN EnricherPathMap
             THEN EnricherPathMap[route_to_agent(s2)] ELSE ""
      [] n = "quality_check" ->
             IF route_after_quality(s2) \in DOMAIN QualityPathMap
             THEN QualityPathMap[route_after_quality(s2)] ELSE ""
      [] OTHER -> StaticEdge(n)

\* run_agent(query, user_id): the initial_state is built, with a new list
\* for path_taken and a new dict for context, and handed to app.invoke,
\* which schedules the entry point.
CallRunAgent(r) ==
    /\ runs[r].status = "new"
    /\ \E q \in Vocabulary, u \in UserIds :
          LET path_ref == FreshRef(heap)
              listed   == Append(heap, << >>)
              ctx_ref  == FreshRef(listed)
          IN  /\ heap' = Append(listed, EmptyDict)
              /\ runs' = [runs EXCEPT ![r] =
                            [ state  |-> [InitialState(q, u) EXCEPT
                                            !.context = ctx_ref,
                                            !.path_taken = path_ref],
                              node   |-> EntryPoint,
                              status |-> "running" ]]
    /\ UNCHANGED <<execVars, anaVars, rankVars, costVars, buildVars, simVars>>

\* One node step of call r.  The node function appends to the list that
\* path_taken refers to; context_enricher binds context to a new dict.
StepRun(r) ==
    /\ runs[r].status = "running"
    /\ LET n    == runs[r].node
           refs == runs[r].state
       IN  \E e \in Elapsed(SleepMs[n]) :
              LET s2      == NodeFunction(n, Deref(refs), e)
                  target  == Target(n, s2)
                  listed  == [heap EXCEPT ![refs.path_taken] = s2.path_taken]
                  rebound == n = "context_enricher"
                  ctx_ref == IF rebound THEN FreshRef(heap) ELSE refs.context
              IN  /\ heap' = IF rebound THEN Append(listed, s2.context) ELSE listed
                  /\ runs' = [runs EXCEPT ![r] =
                                [ state  |-> [s2 EXCEPT !.context = ctx_ref,
                                                        !.path_taken = refs.path_taken],
                                  node   |-> IF target = "" THEN n ELSE target,
                                  status |-> IF target = "" THEN "error"
                                             ELSE IF target = END THEN "done"
                                             ELSE "running" ]]
    /\ UNCHANGED <<execVars, anaVars, rankVars, costVars, buildVars, simVars>>

InitRuns ==
    /\ runs = [r \in RunIds |-> NoCall]
    /\ heap = << >>
    /\ ExecIdle
    /\ AnaIdle
    /\ BuildIdle

NextRuns ==
    \E r \in RunIds : CallRunAgent(r) \/ StepRun(r)

\* Two calls of run_agent, their node steps in any order.
SpecRuns == InitRuns /\ [][NextRuns]_vars

\* ------------------------------------------------------------------------
\* The analysis script (02_bottleneck_analysis.py)
\* ------------------------------------------------------------------------

\* Line 34: betweenness = nx.betweenness_centrality(G, weight='weight')
ComputeBetweenness ==
    /\ apc = "loaded"
    /\ betweenness' = betweenness_centrality(G)
    /\ apc' = "scored"
    /\ UNCHANGED <<script, G, visited, stack, all_paths>>
    /\ UNCHANGED <<rankVars, costVars>>
    /\ UNCHANGED <<execVars, buildVars, runVars, simVars>>

\* betweenness.items(): the <<node, score>> pairs in node order; the scores
\* share the denominator, so the numerator is the sort key.
Items(g, b) == [i \in 1..Len(g.nodes) |-> <<g.nodes[i], b.num[g.nodes[i]]>>]

\* Lines 37-59: the nodes are sorted by descending score, and the first of
\* them is the primary bottleneck.
RankNodes ==
    /\ script = "bottleneck"
    /\ apc = "scored"
    /\ sorted_betweenness' = SortedReverse(Items(G, betweenness))
    /\ bottleneck_node' = sorted_betweenness'[1][1]
    /\ apc' = "ranked"
    /\ UNCHANGED <<script, G, betweenness, visited, stack, all_paths>>
    /\ UNCHANGED costVars
    /\ UNCHANGED <<execVars, buildVars, runVars, simVars>>

\* Lines 83-84: every edge gets the attribute time_weight, the avg_time_ms
\* of its target.
AddTimeWeight ==
    /\ apc = "ranked"
    /\ G' = [G EXCEPT !.time_weight = [e \in EdgeSet(G) |-> G.time[e[2]]]]
    /\ apc' = "weighted"
    /\ UNCHANGED <<script, betweenness, visited, stack, all_paths>>
    /\ UNCHANGED <<rankVars, costVars>>
    /\ UNCHANGED <<execVars, buildVars, runVars, simVars>>

\* nx.all_simple_paths(G, 'input', 'output') starts its search: line 87 of
\* the bottleneck analysis, line 39 of the cost analysis.
PathsStart ==
    /\ \/ script = "bottleneck" /\ apc = "weighted"
       \/ script = "cost" /\ apc = "loaded"
    /\ visited' = <<"input">>
    /\ stack' = <<Successors(G, "input")>>
    /\ all_paths' = << >>
    /\ apc' = "dfs"
    /\ UNCHANGED <<script, G, betweenness>>
    /\ UNCHANGED <<rankVars, costVars>>
    /\ UNCHANGED <<execVars, buildVars, runVars, simVars>>

\* The iterator on top of the stack is exhausted: stack.pop(),
\* visited.popitem().
DfsBacktrack ==
    /\ apc = "dfs"
    /\ stack # << >>
    /\ stack[Len(stack)] = << >>
    /\ stack' = PopStack(stack)
    /\ visited' = Front(visited)
    /\ UNCHANGED <<script, G, apc, betweenness, all_paths>>
    /\ UNCHANGED <<rankVars, costVars>>
    /\ UNCHANGED <<execVars, buildVars, runVars, simVars>>

\* len(visited) < cutoff: the next child is skipped when it is on the
\* current path, emitted when it is the target, entered otherwise.
DfsAdvance ==
    /\ apc = "dfs"
    /\ stack # << >>
    /\ stack[Len(stack)] # << >>
    /\ Len(visited) < Cutoff(G)
    /\ LET children == stack[Len(stack)]
           child    == Head(children)
           rest     == [stack EXCEPT ![Len(stack)] = Tail(children)]
       IN  IF OnPath(child, visited)
           THEN /\ stack' = rest
                /\ UNCHANGED <<visited, all_paths>>
           ELSE IF child = "output"
           THEN /\ all_paths' = Append(all_paths, Append(visited, child))
                /\ stack' = rest
                /\ UNCHANGED visited
           ELSE /\ visited' = Append(visited, child)
                /\ stack' = Append(rest, Successors(G, child))
                /\ UNCHANGED all_paths
    /\ UNCHANGED <<script, G, apc, betweenness>>
    /\ UNCHANGED <<rankVars, costVars>>
    /\ UNCHANGED <<execVars, buildVars, runVars, simVars>>

\* len(visited) == cutoff: the target is emitted when it is among the
\* children still to try, and the search backtracks.
DfsCutoff ==
    /\ apc = "dfs"
    /\ stack # << >>
    /\ stack[Len(stack)] # << >>
    /\ Len(visited) >= Cutoff(G)
    /\ LET children == stack[Len(stack)] IN
       all_paths' =
           IF /\ \E i \in 1..Len(children) : children[i] = "output"
              /\ ~ OnPath("output", visited)
           THEN Append(all_paths, Append(visited, "output"))
           ELSE all_paths
    /\ stack' = PopStack(stack)
    /\ visited' = Front(visited)
    /\ UNCHANGED <<script, G, apc, betweenness>>
    /\ UNCHANGED <<rankVars, costVars>>
    /\ UNCHANGED <<execVars, buildVars, runVars, simVars>>

\* The stack is empty: list(...) has collected every path.
PathsDone ==
    /\ apc = "dfs"
    /\ stack = << >>
    /\ apc' = "done"
    /\ UNCHANGED <<script, G, betweenness, visited, stack, all_paths>>
    /\ UNCHANGED <<rankVars, costVars>>
    /\ UNCHANGED <<execVars, buildVars, runVars, simVars>>

\* G.nodes[node].get('cost_per_call', 0)
CostPerCall(g, n) == IF n \in DOMAIN g.cost THEN g.cost[n] ELSE 0

\* Sum of the numbers of a sequence.
Total(seq) == SumSeq(seq, [i \in 1..Len(seq) |-> i])

\* G.nodes[n].get('avg_time_ms', 0)
AvgTimeMs(g, n) == IF n \in DOMAIN g.time THEN g.time[n] ELSE 0

\* Line 92: sum(G.nodes[node].get('avg_time_ms', 0) for node in path)
PathTime(g, path) ==
    SumSeq([n \in NodeSet(g) |-> AvgTimeMs(g, n)], path)

\* Line 93: sum(G.nodes[node].get('cost_per_call', 0) for node in path)
PathTotalCost(g, path) ==
    SumSeq([n \in NodeSet(g) |-> CostPerCall(g, n)], path)

\* Lines 90-97: the <<path, total_time, total_cost>> of every path, sorted
\* by descending time.
CriticalPaths ==
    /\ script = "bottleneck"
    /\ apc = "done"
    /\ path_times' = SortedReverse([i \in 1..Len(all_paths) |->
                         <<all_paths[i], PathTime(G, all_paths[i]),
                           PathTotalCost(G, all_paths[i])>>])
    /\ apc' = "timed"
    /\ UNCHANGED <<script, G, betweenness, visited, stack, all_paths>>
    /\ UNCHANGED <<rankVars, costVars>>
    /\ UNCHANGED <<optimization, cache_rows, impact>>
    /\ UNCHANGED <<execVars, buildVars, runVars>>

\* Lines 120-125: (name, time_mult, cost_mult), multipliers in hundredths.
Scenarios ==
    << [name |-> "Add caching (80% hit rate)", time_mult |-> 20, cost_mult |-> 20],
       [name |-> "Add caching (50% hit rate)", time_mult |-> 50, cost_mult |-> 50],
       [name |-> "Optimize prompt",            time_mult |-> 70, cost_mult |-> 70],
       [name |-> "Use faster model",           time_mult |-> 80, cost_mult |-> 60] >>

\* np.mean(values): nan for an empty list.
Mean(values) == Frac(Total(values), Len(values))

\* Faulty variant of AvgNew: the saving is added to the average.
AvgNewSavingAdded(avg_current, current_bottleneck, mult) ==
    FracAdd(avg_current,
            FracSub(Frac(current_bottleneck, 1), Frac(current_bottleneck * mult, 100)))

\* Lines 132-140: new = current_bottleneck * mult,
\* avg_new = avg_current - (current_bottleneck - new).
AvgNew(avg_current, current_bottleneck, mult) ==
    FracSub(avg_current,
            FracSub(Frac(current_bottleneck, 1), Frac(current_bottleneck * mult, 100)))

\* Lines 142-143: ((avg_current - avg_new) / avg_current) * 100
Improvement(avg_current, avg_new) ==
    FracMul(FracDiv(FracSub(avg_current, avg_new), avg_current), Frac(100, 1))

\* Lines 110-143: the bottleneck node's time and cost are scaled by every
\* scenario and the saving is taken off the average path time and cost.
ImpactAnalysis ==
    /\ script = "bottleneck"
    /\ apc = "timed"
    /\ LET current_bottleneck_time == AvgTimeMs(G, bottleneck_node)
           current_bottleneck_cost == CostPerCall(G, bottleneck_node)
           avg_current_time == Mean([i \in 1..Len(path_times) |-> path_times[i][2]])
           avg_current_cost == Mean([i \in 1..Len(path_times) |-> path_times[i][3]])
       IN  impact' = [i \in 1..Len(Scenarios) |->
              LET avg_new_time == AvgNew(avg_current_time, current_bottleneck_time,
                                         Scenarios[i].time_mult)
                  avg_new_cost == AvgNew(avg_current_cost, current_bottleneck_cost,
                                         Scenarios[i].cost_mult)
              IN  [ scenario         |-> Scenarios[i].name,
                    avg_new_time     |-> avg_new_time,
                    avg_new_cost     |-> avg_new_cost,
                    time_improvement |-> Improvement(avg_current_time, avg_new_time),
                    cost_improvement |-> Improvement(avg_current_cost, avg_new_cost) ]]
    /\ apc' = "impact"
    /\ UNCHANGED <<script, G, betweenness, visited, stack, all_paths>>
    /\ UNCHANGED <<rankVars, costVars>>
    /\ UNCHANGED <<optimization, cache_rows, path_times>>
    /\ UNCHANGED <<execVars, buildVars, runVars>>

\* Line 21: the graph is loaded.
InitAnalysis ==
    /\ script = "bottleneck"
    /\ G \in Graphs
    /\ apc = "loaded"
    /\ betweenness = EmptyDict
    /\ visited = << >>
    /\ stack = << >>
    /\ all_paths = << >>
    /\ sorted_betweenness = << >>
    /\ bottleneck_node = ""
    /\ path_costs = << >>
    /\ baseline = EmptyDict
    /\ node_costs = << >>
    /\ raised = ""
    /\ SimIdle
    /\ ExecIdle
    /\ BuildIdle
    /\ RunsIdle

NextAnalysis ==
    \/ ComputeBetweenness
    \/ RankNodes
    \/ AddTimeWeight
    \/ PathsStart
    \/ DfsBacktrack
    \/ DfsAdvance
    \/ DfsCutoff
    \/ PathsDone
    \/ CriticalPaths
    \/ ImpactAnalysis

\* One run of the bottleneck analysis on a graph.
SpecAnalysis == InitAnalysis /\ [][NextAnalysis]_vars

\* ------------------------------------------------------------------------
\* The cost analysis script (03_cost_analysis.py)
\* ------------------------------------------------------------------------

\* Line 23: the graph is loaded.
InitCost ==
    /\ script = "cost"
    /\ G \in Graphs
    /\ apc = "loaded"
    /\ betweenness = EmptyDict
    /\ visited = << >>
    /\ stack = << >>
    /\ all_paths = << >>
    /\ sorted_betweenness = << >>
    /\ bottleneck_node = ""
    /\ path_costs = << >>
    /\ baseline = EmptyDict
    /\ node_costs = << >>
    /\ raised = ""
    /\ SimIdle
    /\ ExecIdle
    /\ BuildIdle
    /\ RunsIdle

\* Faulty variant of PathCost: the cost of a node is scaled by the weight of
\* the edge that enters it.
PathCostWeighted(g, path) ==
    Total([k \in 1..(Len(path) - 1) |->
              (CostPerCall(g, path[k + 1]) * Weight(g, path[k], path[k + 1])) \div 100])

\* Line 43: the sum of cost_per_call over the nodes of the path.
PathCost(g, path) ==
    SumSeq([n \in NodeSet(g) |-> CostPerCall(g, n)], path)

\* Lines 40-48: the cost of every path, then np.mean, min and max of the
\* costs.  np.mean of an empty list is nan (with a warning), and min() of
\* an empty list raises ValueError, which ends the script.
BaselineCost ==
    /\ script = "cost"
    /\ apc = "done"
    /\ LET costs == [i \in 1..Len(all_paths) |-> PathCost(G, all_paths[i])] IN
       /\ path_costs' = costs
       /\ IF costs = << >>
          THEN /\ raised' = "ValueError"
               /\ apc' = "raised"
               /\ UNCHANGED baseline
          ELSE /\ baseline' =
                     [ avg |-> [num |-> Total(costs), den |-> Len(costs)],
                       min |-> MinOf({ costs[i] : i \in 1..Len(costs) }),
                       max |-> MaxOf({ costs[i] : i \in 1..Len(costs) }) ]
               /\ apc' = "baseline"
               /\ UNCHANGED raised
    /\ UNCHANGED <<script, G, betweenness, visited, stack, all_paths>>
    /\ UNCHANGED <<rankVars, node_costs>>
    /\ UNCHANGED <<execVars, buildVars, runVars, simVars>>

\* Faulty variant of InPath: every node counts as being on every path.
InPathAlways(n, path) == TRUE

\* `node in path`
InPath(n, path) == \E i \in 1..Len(path) : path[i] = n

\* Faulty variant of NodeCostEntry: the contribution is computed with the
\* integer division.
NodeCostEntryTruncated(g, paths, avg, n) ==
    LET node_cost          == CostPerCall(g, n)
        paths_through_node == Cardinality({ i \in 1..Len(paths) : InPath(n, paths[i]) })
    IN  [ node         |-> n,
          cost         |-> node_cost,
          paths_pct    |-> [num |-> 100 * paths_through_node, den |-> Len(paths)],
          contribution |-> [num |-> (node_cost * paths_through_node) \div Len(paths),
                            den |-> 1],
          pct_total    |-> [num |-> 0, den |-> 1] ]

\* Lines 83-99: the entry of one node.  Its contribution is
\* node_cost * (paths_through_node / len(all_paths)); the fractions are
\* kept as numerator and denominator.
NodeCostEntry(g, paths, avg, n) ==
    LET node_cost          == CostPerCall(g, n)
        paths_through_node == Cardinality({ i \in 1..Len(paths) : InPath(n, paths[i]) })
    IN  [ node         |-> n,
          cost         |-> node_cost,
          paths_pct    |-> [num |-> 100 * paths_through_node, den |-> Len(paths)],
          contribution |-> [num |-> node_cost * paths_through_node, den |-> Len(paths)],
          pct_total    |-> IF avg.num > 0
                           THEN [num |-> 100 * node_cost * paths_through_node * avg.den,
                                 den |-> Len(paths) * avg.num]
                           ELSE [num |-> 0, den |-> 1] ]

\* Lines 80-102: the entries of the nodes with a cost, in node order, sorted
\* by descending contribution.  The division by len(all_paths) raises
\* ZeroDivisionError when there is no path.
NodeBreakdown ==
    /\ script = "cost"
    /\ apc = "baseline"
    /\ IF Len(all_paths) = 0
       THEN /\ raised' = "ZeroDivisionError"
            /\ apc' = "raised"
            /\ UNCHANGED node_costs
       ELSE /\ LET costly  == SelectSeq(G.nodes, LAMBDA n : CostPerCall(G, n) > 0)
                   entries == [i \in 1..Len(costly) |->
                                 NodeCostEntry(G, all_paths, baseline.avg, costly[i])]
                   sorted  == SortedReverse([i \in 1..Len(entries) |->
                                 <<entries[i], entries[i].contribution.num>>])
               IN  node_costs' = [i \in 1..Len(sorted) |-> sorted[i][1]]
            /\ apc' = "breakdown"
            /\ UNCHANGED raised
    /\ UNCHANGED <<script, G, betweenness, visited, stack, all_paths>>
    /\ UNCHANGED <<rankVars, path_costs, baseline>>
    /\ UNCHANGED <<execVars, buildVars, runVars, simVars>>

\* The cost multiplier of the optimization simulation, in hundredths.
OptimizedShare == 50

\* Faulty variant of NewAvgCost: the saving is not scaled by the share of
\* paths through the node.
NewAvgCostUnscaled(avg, current_node_cost, multiplier, paths_pct) ==
    FracSub(avg, FracSub(Frac(current_node_cost, 1),
                         Frac(current_node_cost * multiplier, 100)))

\* Lines 130-138: optimized_node_cost = current_node_cost * multiplier,
\* cost_reduction = current_node_cost - optimized_node_cost,
\* new_avg_cost = avg - cost_reduction * (paths_pct / 100).
NewAvgCost(avg, current_node_cost, multiplier, paths_pct) ==
    LET optimized_node_cost == Frac(current_node_cost * multiplier, 100)
        cost_reduction      == FracSub(Frac(current_node_cost, 1), optimized_node_cost)
    IN  FracSub(avg, FracMul(cost_reduction, FracDiv(paths_pct, Frac(100, 1))))

\* Line 140: ((avg - new_avg_cost) / avg) * 100
CostSavingsPct(avg, new_avg_cost) ==
    FracMul(FracDiv(FracSub(avg, new_avg_cost), avg), Frac(100, 1))

\* Lines 116-140: the first entry of node_costs is simulated at half its
\* cost.  top_expensive[0] raises IndexError when no node has a cost.
OptimizationSimulation ==
    /\ script = "cost"
    /\ apc = "breakdown"
    /\ IF node_costs = << >>
       THEN /\ raised' = "IndexError"
            /\ apc' = "raised"
            /\ UNCHANGED optimization
       ELSE /\ LET top                == node_costs[1]
                   current_node_cost  == G.cost[top.node]
                   new_avg_cost       == NewAvgCost(baseline.avg, current_node_cost,
                                                    OptimizedShare, top.paths_pct)
               IN  optimization' =
                       [ node              |-> top.node,
                         current_node_cost |-> current_node_cost,
                         new_avg_cost      |-> new_avg_cost,
                         cost_savings_pct  |-> CostSavingsPct(baseline.avg, new_avg_cost) ]
            /\ apc' = "optimized"
            /\ UNCHANGED raised
    /\ UNCHANGED <<script, G, betweenness, visited, stack, all_paths>>
    /\ UNCHANGED <<rankVars, path_costs, baseline, node_costs>>
    /\ UNCHANGED <<cache_rows, path_times, impact>>
    /\ UNCHANGED <<execVars, buildVars, runVars>>

\* Line 160: cache_hit_rates = [0.3, 0.5, 0.7, 0.9], in hundredths.
CacheHitRates == <<30, 50, 70, 90>>

\* Line 168: new_avg_cost * (1 - hit_rate)
\*           + (new_avg_cost - current_node_cost) * hit_rate
CachedCost(new_avg_cost, current_node_cost, hit_rate) ==
    FracAdd(FracMul(new_avg_cost, Frac(100 - hit_rate, 100)),
            FracMul(FracSub(new_avg_cost, Frac(current_node_cost, 1)),
                    Frac(hit_rate, 100)))

\* Lines 168-170: the row of one hit rate.
CacheRow(avg, new_avg_cost, current_node_cost, hit_rate) ==
    LET cached_cost    == CachedCost(new_avg_cost, current_node_cost, hit_rate)
        cost_reduction == FracSub(avg, cached_cost)
    IN  [ hit_rate           |-> hit_rate,
          cached_cost        |-> cached_cost,
          cost_reduction     |-> cost_reduction,
          cost_reduction_pct |-> FracMul(FracDiv(cost_reduction, avg), Frac(100, 1)) ]

\* Lines 166-175: the loop over the cache hit rates.
CacheSimulation ==
    /\ script = "cost"
    /\ apc = "optimized"
    /\ cache_rows' = [i \in 1..Len(CacheHitRates) |->
                         CacheRow(baseline.avg, optimization.new_avg_cost,
                                  optimization.current_node_cost, CacheHitRates[i])]
    /\ apc' = "cached"
    /\ UNCHANGED <<script, G, betweenness, visited, stack, all_paths>>
    /\ UNCHANGED <<rankVars, costVars>>
    /\ UNCHANGED <<optimization, path_times, impact>>
    /\ UNCHANGED <<execVars, buildVars, runVars>>

\* nx.all_simple_paths: the steps of the enumeration.
NextPaths ==
    \/ PathsStart
    \/ DfsBacktrack
    \/ DfsAdvance
    \/ DfsCutoff
    \/ PathsDone

NextCost ==
    \/ NextPaths
    \/ BaselineCost
    \/ NodeBreakdown
    \/ OptimizationSimulation
    \/ CacheSimulation

\* One run of the cost analysis on a graph, up to the cost breakdown.
SpecCost == InitCost /\ [][NextCost]_vars

\* The script keeps running while the enumeration is not done.
FairSpecCost == InitCost /\ [][NextCost]_vars /\ WF_vars(NextPaths)

\* ------------------------------------------------------------------------
\* The graph construction script (01_workflow_design.py)
\* ------------------------------------------------------------------------

\* Longest list of nodes and longest list of edges of a generated definition.
MaxNodeItems == 3
MaxEdgeItems == 2

\* Line 20: G = nx.DiGraph()
EmptyGraph ==
    [ nodes |-> << >>, edges |-> << >>, cost |-> EmptyDict, time |-> EmptyDict,
      time_weight |-> EmptyDict ]

\* Lines 23-94: the list nodes of the script; an item is
\* <<node_id, cost_per_call, avg_time_ms>>.
ReferenceNodes ==
    [i \in 1..Len(ReferenceGraph.nodes) |->
        << ReferenceGraph.nodes[i],
           ReferenceGraph.cost[ReferenceGraph.nodes[i]],
           ReferenceGraph.time[ReferenceGraph.nodes[i]] >>]

\* Lines 101-124: the list edges of the script.
ReferenceEdges == ReferenceGraph.edges

\* Node items of the generated definitions: the id a occurs with two
\* different costs.
NodeChoices ==
    { <<"input", 0, 5>>, <<"a", 2, 100>>, <<"a", 7, 100>>, <<"output", 0, 5>> }

\* Edge items of the generated definitions: a branch at input whose weights
\* sum to 0.75, an endpoint b that no node item names, a weight of 1.5.
EdgeChoices ==
    { <<"input", "a", 50>>, <<"input", "output", 25>>, <<"a", "output", 150>>,
      <<"input", "b", 100>> }

NodeLists ==
    {ReferenceNodes} \cup UNION { [1..n -> NodeChoices] : n \in 1..MaxNodeItems }

EdgeLists ==
    {ReferenceEdges} \cup UNION { [1..n -> EdgeChoices] : n \in 0..MaxEdgeItems }

\* G.add_node(node_id, **attrs): a new node is added, the attributes of a
\* node that exists are updated; networkx raises nothing in either case.
add_node(g, item) ==
    [ g EXCEPT !.nodes = IF item[1] \in NodeSet(g) THEN @ ELSE Append(@, item[1]),
               !.cost  = (item[1] :> item[2]) @@ @,
               !.time  = (item[1] :> item[3]) @@ @ ]

\* The node order after an edge u -> v is added: an endpoint that is not a
\* node yet is created without attributes.
WithEndpoints(ns, u, v) ==
    LET nu == IF \E i \in 1..Len(ns) : ns[i] = u THEN ns ELSE Append(ns, u) IN
    IF \E i \in 1..Len(nu) : nu[i] = v THEN nu ELSE Append(nu, v)

\* One edge of add_edges_from: the weight of an edge that exists is updated,
\* a new edge is added; the weight is stored as it is.
add_edge(g, e) ==
    [ g EXCEPT !.nodes = WithEndpoints(@, e[1], e[2]),
               !.edges = IF <<e[1], e[2]>> \in EdgeSet(g)
                         THEN [i \in 1..Len(@) |->
                                 IF @[i][1] = e[1] /\ @[i][2] = e[2] THEN e ELSE @[i]]
                         ELSE Append(@, e) ]

RECURSIVE add_edges_from(_, _)
\* G.add_edges_from(ebunch): the edges are added in list order.
add_edges_from(g, ebunch) ==
    IF ebunch = << >> THEN g
    ELSE CHOOSE r \in { add_edge(h, ebunch[Len(ebunch)]) :
                           h \in {add_edges_from(g, Front(ebunch))} } : TRUE

\* Lines 97-98: one iteration of the loop over nodes.
AddNode ==
    /\ script = "design"
    /\ apc = "nodes"
    /\ added < Len(nodes)
    /\ G' = add_node(G, nodes[added + 1])
    /\ added' = added + 1
    /\ UNCHANGED <<script, apc, betweenness, visited, stack, all_paths>>
    /\ UNCHANGED <<rankVars, costVars, nodes, edges>>
    /\ UNCHANGED <<execVars, runVars, simVars>>

\* Line 127, after the loop over nodes: G.add_edges_from(...); the graph is
\* built.
AddEdges ==
    /\ script = "design"
    /\ apc = "nodes"
    /\ added = Len(nodes)
    /\ G' = add_edges_from(G, edges)
    /\ apc' = "built"
    /\ UNCHANGED <<script, betweenness, visited, stack, all_paths>>
    /\ UNCHANGED <<rankVars, costVars, buildVars>>
    /\ UNCHANGED <<execVars, runVars, simVars>>

\* Line 20: the empty graph, before the first node is added.
InitBuild ==
    /\ script = "design"
    /\ G = EmptyGraph
    /\ apc = "nodes"
    /\ nodes \in NodeLists
    /\ edges \in EdgeLists
    /\ added = 0
    /\ betweenness = EmptyDict
    /\ visited = << >>
    /\ stack = << >>
    /\ all_paths = << >>
    /\ sorted_betweenness = << >>
    /\ bottleneck_node = ""
    /\ path_costs = << >>
    /\ baseline = EmptyDict
    /\ node_costs = << >>
    /\ raised = ""
    /\ SimIdle
    /\ ExecIdle
    /\ RunsIdle

NextBuild ==
    \/ AddNode
    \/ AddEdges

\* One run of the graph construction on a definition.
SpecBuild == InitBuild /\ [][NextBuild]_vars

\* ------------------------------------------------------------------------
\* Properties of the execution state machine
\* ------------------------------------------------------------------------

\* Number of quality_check -> intent_classifier transitions in a sequence of
\* executed nodes followed by the scheduled node.
RetriesTaken ==
    LET run == Append(trace, node) IN
    Cardinality({ i \in 1..(Len(run) - 1) :
                    run[i] = "quality_check" /\ run[i + 1] = "intent_classifier" })

\* C1: a run that is cut off after repeated low-confidence quality_check
\* visits fails with the distinct error RetryLimitExceededError.
C1_RetryLimitExceededError ==
    (status = "error" /\ RetriesTaken > 0) => error = "RetryLimitExceededError"

\* C2: every execution eventually reaches END or a fatal error state.
C2_Terminates == <>(status \in {"done", "error"})

C2_Witness == status = "done" /\ node = END /\ Len(trace) = 5

AllowedTransitions ==
    { <<START, "intent_classifier">>,
      <<"intent_classifier", "context_enricher">>,
      <<"context_enricher", "billing_agent">>,
      <<"context_enricher", "technical_agent">>,
      <<"context_enricher", "account_agent">>,
      <<"billing_agent", "quality_check">>,
      <<"technical_agent", "quality_check">>,
      <<"account_agent", "quality_check">>,
      <<"quality_check", "response_formatter">>,
      <<"quality_check", "intent_classifier">>,
      <<"response_formatter", END>> }

\* C3: every transition taken is one of the listed transitions, and END is
\* entered only from response_formatter.
C3_OnlyListedTransitions ==
    /\ edge # << >> => edge \in AllowedTransitions
    /\ node = END => edge = <<"response_formatter", END>>

C3_Witness ==
    /\ node = END
    /\ \E i \in 1..(Len(trace) - 1) :
          trace[i] = "quality_check" /\ trace[i + 1] = "intent_classifier"

\* C4: for every intent the classifier writes, route_to_agent returns the
\* key of exactly one registered specialist node, so the routing of the
\* enricher never fails.
C4_RoutingTotal ==
    /\ state.intent # "" =>
          /\ route_to_agent(state) \in DOMAIN EnricherPathMap
          /\ EnricherPathMap[route_to_agent(state)] \in Specialists \cap Nodes
    /\ error # "KeyError"
    /\ (edge # << >> /\ edge[1] = "context_enricher") =>
          edge[2] = EnricherPathMap[route_to_agent(state)]

C4_Witness ==
    /\ edge = <<"context_enricher", "account_agent">>
    /\ state.intent = "account"

\* C5: path_taken always equals the sequence of nodes run so far, and each
\* node step appends exactly its own identifier to the previous path_taken.
C5_PathAppendOnly ==
    /\ [](state.path_taken = trace)
    /\ [][step' = step + 1 =>
            state'.path_taken = Append(state.path_taken, node)]_vars

C5_Witness ==
    /\ Len(state.path_taken) = 9
    /\ state.path_taken[5] = "intent_classifier"
    /\ state.path_taken[9] = "response_formatter"

\* C6: cost and time_ms never decrease across a step, retries included.
C6_CostTimeMonotonic ==
    [][state'.cost >= state.cost /\ state'.time_ms >= state.time_ms]_vars

C6_Witness ==
    /\ RetriesTaken >= 1
    /\ status = "done"
    /\ state.cost > 40
    /\ state.time_ms > 0

\* C7: a query whose text contains "bill" is classified billing and routed
\* from context_enricher to billing_agent, whatever else it contains.
C7_BillRoutesToBilling ==
    Contains(state.query, KwBill) =>
        /\ state.intent \in {"", "billing"}
        /\ (edge # << >> /\ edge[1] = "context_enricher") => edge[2] = "billing_agent"
        /\ \A i \in 1..Len(trace) :
              trace[i] \in Specialists => trace[i] = "billing_agent"

C7_Witness ==
    /\ Contains(state.query, KwBill)
    /\ Contains(Lower(state.query), KwError)
    /\ edge = <<"context_enricher", "billing_agent">>

\* ------------------------------------------------------------------------
\* Properties of the graph analysis
\* ------------------------------------------------------------------------

\* The graph is the reference graph of 01_workflow_design.py.
IsReference(g) ==
    g.nodes = ReferenceGraph.nodes /\ g.edges = ReferenceGraph.edges

HasCycle(g) ==
    \E u, v \in NodeSet(g) :
        u # v /\ <<u, v>> \in EdgeSet(g) /\ <<v, u>> \in EdgeSet(g)

\* The path from input to output through the given specialist.
PathThrough(specialist) ==
    << "input", "intent_classifier", "context_enricher", specialist,
       "quality_check", "response_formatter", "output" >>

\* C8: no emitted path contains a node twice, every emitted path leads from
\* input to output along edges, and on the reference graph exactly 3 paths
\* are emitted, one through each specialist.
C8_SimplePaths ==
    /\ \A i \in 1..Len(all_paths) :
          LET path == all_paths[i] IN
          /\ NoRepeat(path)
          /\ path[1] = "input" /\ path[Len(path)] = "output"
          /\ \A k \in 1..(Len(path) - 1) : <<path[k], path[k + 1]>> \in EdgeSet(G)
    /\ (apc = "done" /\ IsReference(G)) =>
          /\ Len(all_paths) = 3
          /\ { all_paths[i] : i \in 1..3 } = { PathThrough(a) : a \in Specialists }

C8_Witness ==
    /\ apc = "done"
    /\ IsReference(G)
    /\ Len(all_paths) = 3

\* C9: the path enumeration finishes on every graph, cyclic ones included.
C9_EnumerationTerminates == <>(apc = "done")

C9_Witness ==
    /\ apc = "done"
    /\ HasCycle(G)
    /\ Len(all_paths) >= 2

\* The scores a and b are the same fractions.
SameScores(g, a, b) ==
    \A v \in NodeSet(g) : a.num[v] * b.den = b.num[v] * a.den

\* C10: the scores are those of shortest paths by hop count, the weight
\* attribute has no influence, and on the reference graph the three
\* specialists score the same.
C10_HopCountBetweenness ==
    betweenness # EmptyDict =>
        /\ SameScores(G, betweenness, Betweenness(G, HopLength(G)))
        /\ IsReference(G) =>
              /\ betweenness.num["billing_agent"] = betweenness.num["technical_agent"]
              /\ betweenness.num["technical_agent"] = betweenness.num["account_agent"]

\* Every score lies in [0, 1].
ScoresInUnitInterval ==
    \A v \in NodeSet(G) :
        0 <= betweenness.num[v] /\ betweenness.num[v] <= betweenness.den

\* C11 as stated: every betweenness score is in [0, 1], and input and
\* output both score 0.
C11_EndpointsScoreZero ==
    betweenness # EmptyDict =>
        /\ ScoresInUnitInterval
        /\ betweenness.num["input"] = 0
        /\ betweenness.num["output"] = 0

\* C11 amended: every betweenness score is in [0, 1]; input scores 0 when no
\* edge enters it and output scores 0 when no edge leaves it, which is the
\* case on the reference graph.
C11_ScoresBounded ==
    betweenness # EmptyDict =>
        /\ ScoresInUnitInterval
        /\ Predecessors(G, "input") = {} => betweenness.num["input"] = 0
        /\ Successors(G, "output") = << >> => betweenness.num["output"] = 0
        /\ IsReference(G) =>
              betweenness.num["input"] = 0 /\ betweenness.num["output"] = 0

C11_Witness ==
    /\ IsReference(G)
    /\ betweenness # EmptyDict
    /\ betweenness.num["quality_check"] > 0
    /\ betweenness.num["input"] = 0
    /\ betweenness.num["output"] = 0

\* C12: the analysis never mutates the graph: at every point of the script
\* the graph is one of the graphs as they were loaded, with the same nodes,
\* edges and node and edge attributes.
C12_GraphNeverMutated ==
    script # "none" => G \in Graphs

\* ------------------------------------------------------------------------
\* Properties of the cost analysis
\* ------------------------------------------------------------------------

\* C13: on a graph without a path from input to output the cost analysis
\* does not raise, average, minimum and maximum cost are zero, and every
\* per-node contribution and percentage is zero.
C13_ZeroPathsAllZero ==
    (script = "cost" /\ all_paths = << >> /\ apc \in {"raised", "baseline", "breakdown"}) =>
        /\ raised = ""
        /\ baseline # EmptyDict
        /\ baseline.avg.num = 0 /\ baseline.min = 0 /\ baseline.max = 0
        /\ \A i \in 1..Len(node_costs) :
              /\ node_costs[i].contribution.num = 0
              /\ node_costs[i].paths_pct.num = 0
              /\ node_costs[i].pct_total.num = 0

\* Number of times node n occurs on the enumerated paths.
Occurrences(n) ==
    Total([i \in 1..Len(all_paths) |->
              Cardinality({ k \in 1..Len(all_paths[i]) : all_paths[i][k] = n })])

\* C16: avg is the sum of the node costs along every enumerated path, each
\* path counted once and no edge weight involved, over the number of paths;
\* and min <= avg <= max when there is a path.
C16_BaselineAverage ==
    baseline # EmptyDict =>
        /\ Len(all_paths) >= 1
        /\ baseline.avg.den = Len(all_paths)
        /\ baseline.avg.num =
              Total([i \in 1..Len(G.nodes) |->
                        CostPerCall(G, G.nodes[i]) * Occurrences(G.nodes[i])])
        /\ baseline.min * baseline.avg.den <= baseline.avg.num
        /\ baseline.avg.num <= baseline.max * baseline.avg.den

C16_Witness ==
    /\ IsReference(G)
    /\ baseline # EmptyDict
    /\ baseline.avg = [num |-> 65, den |-> 3]
    /\ baseline.min = 18
    /\ baseline.max = 26

\* ------------------------------------------------------------------------
\* Properties of the graph construction
\* ------------------------------------------------------------------------

\* Sum of the weights of the edges that leave u.
OutWeight(g, u) ==
    Total([i \in 1..Len(g.edges) |-> IF g.edges[i][1] = u THEN g.edges[i][3] ELSE 0])

\* C14: every graph the construction produces has, at each node with more
\* than one outgoing edge, outgoing weights that sum to 1.0; a definition
\* that violates this does not produce a graph.
C14_BranchingWeightsEnforced ==
    (script = "design" /\ apc = "built") =>
        \A u \in NodeSet(G) :
            Len(Successors(G, u)) > 1 => OutWeight(G, u) = 100

DuplicateNode ==
    \E i, j \in 1..Len(nodes) : i # j /\ nodes[i][1] = nodes[j][1]

UnknownEndpoint ==
    \E k \in 1..Len(edges) :
        \/ \A i \in 1..Len(nodes) : nodes[i][1] # edges[k][1]
        \/ \A i \in 1..Len(nodes) : nodes[i][1] # edges[k][2]

InvalidWeight ==
    \E k \in 1..Len(edges) : edges[k][3] < 0 \/ edges[k][3] > 100

\* C15: a definition with a duplicate node id, an edge with an absent
\* endpoint or an edge weight outside [0, 1] is rejected with an error and
\* builds no graph.
C15_InvalidDefinitionsRejected ==
    (script = "design" /\ (DuplicateNode \/ UnknownEndpoint \/ InvalidWeight)) =>
        apc # "built"

\* ------------------------------------------------------------------------
\* Properties of interleaved executions
\* ------------------------------------------------------------------------

\* The final state of a call that runs alone: the node functions applied
\* one after the other along the edges the graph selects.
Alone(s) ==
    LET a == NodeFunction("intent_classifier", s, 0)
        b == NodeFunction("context_enricher", a, 0)
        c == NodeFunction(Target("context_enricher", b), b, 0)
        d == NodeFunction("quality_check", c, 0)
    IN  NodeFunction("response_formatter", d, 0)

\* C17: when a call is done, its intent, response, confidence, cost and
\* path_taken are those of the same call run alone, whatever the other
\* call did in between.
C17_NoInterference ==
    \A r \in RunIds :
        runs # << >> /\ runs[r].status = "done" =>
            LET final == Deref(runs[r].state)
                alone == Alone(InitialState(final.query, final.user_id))
            IN  /\ final.intent = alone.intent
                /\ final.response = alone.response
                /\ final.confidence = alone.confidence
                /\ final.cost = alone.cost
                /\ final.path_taken = alone.path_taken
                /\ final.context = alone.context

\* Both calls are done; the first was made first, and its context_enricher
\* ran after that of the second.
C17_Witness ==
    /\ runs # << >>
    /\ \A r \in RunIds : runs[r].status = "done"
    /\ runs["first"].state.intent = "billing"
    /\ runs["second"].state.intent = "technical"
    /\ runs["first"].state.path_taken < runs["second"].state.path_taken
    /\ runs["first"].state.context > runs["second"].state.context

\* ------------------------------------------------------------------------
\* Properties of the routing after quality_check
\* ------------------------------------------------------------------------

\* C18: after quality_check the run goes to intent_classifier when the
\* confidence is below 0.5 and to response_formatter when it is 0.5 or
\* more, exactly 0.5 included; nothing but the confidence decides.
C18_ThresholdRouting ==
    /\ (edge # << >> /\ edge[1] = "quality_check") =>
          /\ state.confidence < 50 => edge[2] = "intent_classifier"
          /\ state.confidence >= 50 => edge[2] = "response_formatter"
    /\ \A c \in 0..100 :
          route_after_quality([state EXCEPT !.confidence = c]) =
              IF c < 50 THEN "intent_classifier" ELSE "response_formatter"

C18_Witness ==
    /\ edge = <<"quality_check", "response_formatter">>
    /\ state.confidence = 50
    /\ RetriesTaken >= 1

\* ------------------------------------------------------------------------
\* Properties of the order of paths and of the ranking
\* ------------------------------------------------------------------------

\* The paths of the reference graph in the order of the edges that leave
\* context_enricher.
ReferenceOrder ==
    << PathThrough("billing_agent"), PathThrough("technical_agent"),
       PathThrough("account_agent") >>

\* First index at which the paths p and q differ.
FirstDifference(p, q) ==
    CHOOSE k \in 1..Len(p) :
        /\ p[k] # q[k]
        /\ \A m \in 1..(k - 1) : p[m] = q[m]

\* Place of node n among the edges that leave u, in insertion order.
EdgePlace(g, u, n) ==
    CHOOSE i \in 1..Len(g.edges) : g.edges[i][1] = u /\ g.edges[i][2] = n

\* C19: the paths are emitted in the order of edge insertion: where two
\* paths part, the earlier path follows the edge inserted first; on the
\* reference graph the paths come out through billing_agent, then
\* technical_agent, then account_agent.
C19_PathOrder ==
    /\ \A i, j \in 1..Len(all_paths) :
          i < j =>
              LET p == all_paths[i]
                  q == all_paths[j]
                  k == FirstDifference(p, q)
              IN  /\ k > 1
                  /\ EdgePlace(G, p[k - 1], p[k]) < EdgePlace(G, q[k - 1], q[k])
    /\ IsReference(G) =>
          /\ all_paths = SubSeq(ReferenceOrder, 1, Len(all_paths))
          /\ apc \in {"done", "baseline", "breakdown"} => all_paths = ReferenceOrder

C19_Witness ==
    /\ IsReference(G)
    /\ apc = "done"
    /\ all_paths = ReferenceOrder

\* Place of node n in the insertion order of the nodes.
NodePlace(g, n) == CHOOSE i \in 1..Len(g.nodes) : g.nodes[i] = n

\* C20: the primary bottleneck has the maximum score, and among the nodes
\* with the maximum score it is the one inserted first.
C20_PrimaryBottleneck ==
    bottleneck_node # "" =>
        \A v \in NodeSet(G) :
            /\ betweenness.num[v] <= betweenness.num[bottleneck_node]
            /\ (v # bottleneck_node
                   /\ betweenness.num[v] = betweenness.num[bottleneck_node]) =>
                  NodePlace(G, bottleneck_node) < NodePlace(G, v)

\* Two nodes share a maximum score above 0, and the first of them is
\* returned.
C20_Witness ==
    /\ bottleneck_node = "a"
    /\ betweenness.num["a"] > 0
    /\ betweenness.num["b"] = betweenness.num["a"]

\* ------------------------------------------------------------------------
\* Properties of the cost simulations
\* ------------------------------------------------------------------------

FracEq(a, b) == a.num * b.den = b.num * a.den

\* The graph with every cost in hundredths of its unit and the cost of node
\* n multiplied by multiplier / 100.
Repriced(g, n, multiplier) ==
    [g EXCEPT !.cost = [v \in DOMAIN g.cost |->
                          IF v = n THEN multiplier * g.cost[v] ELSE 100 * g.cost[v]]]

\* The mean of the path costs on the repriced graph.
RepricedMean(g, n, multiplier) ==
    Frac(Total([i \in 1..Len(all_paths) |->
                   PathCost(Repriced(g, n, multiplier), all_paths[i])]),
         100 * Len(all_paths))

\* Cost multipliers from 0 to 1, in hundredths.
Multipliers == {0, 25, 50, 100}

\* C21: the new average cost is avg - (old - new) * (paths through the
\* node / paths), the reported reduction is (avg - new_avg) / avg * 100,
\* and for every multiplier in [0, 1] the new average is the mean of the
\* path costs recomputed with the node at its new cost.
C21_OptimizationDelta ==
    optimization # EmptyDict =>
        LET n       == optimization.node
            avg     == baseline.avg
            through == Cardinality({ i \in 1..Len(all_paths) :
                          \E k \in 1..Len(all_paths[i]) : all_paths[i][k] = n })
            entry   == node_costs[1]
        IN  /\ n = entry.node
            /\ FracEq(optimization.new_avg_cost,
                      FracSub(avg, Frac((100 - OptimizedShare) * G.cost[n] * through,
                                        100 * Len(all_paths))))
            /\ avg.num > 0 =>
                  FracEq(optimization.cost_savings_pct,
                         Frac(100 * (100 - OptimizedShare) * G.cost[n] * through,
                              100 * avg.num))
            /\ \A m \in Multipliers :
                  FracEq(NewAvgCost(avg, G.cost[n], m, entry.paths_pct),
                         RepricedMean(G, n, m))

C21_Witness ==
    /\ IsReference(G)
    /\ optimization # EmptyDict
    /\ optimization.node = "technical_agent"
    /\ FracEq(optimization.new_avg_cost, Frac(55, 3))
    /\ FracEq(optimization.cost_savings_pct, Frac(200, 13))

RECURSIVE FracSum(_)
\* Sum of a sequence of fractions.
FracSum(seq) ==
    IF seq = << >> THEN Frac(0, 1)
    ELSE FracAdd(FracSum(Front(seq)), seq[Len(seq)])

FracLe(a, b) == a.num * b.den <= b.num * a.den

\* C22: the contributions of the nodes with a cost sum to at most the
\* average path cost.
C22_ContributionsAtMostAverage ==
    (apc \in {"breakdown", "optimized", "cached"} /\ Len(all_paths) >= 1) =>
        FracLe(FracSum([i \in 1..Len(node_costs) |-> node_costs[i].contribution]),
               baseline.avg)

C22_Witness ==
    /\ IsReference(G)
    /\ apc = "breakdown"
    /\ Len(node_costs) = 6
    /\ node_costs[1].node = "technical_agent"
    /\ node_costs[1].contribution = [num |-> 20, den |-> 3]

\* C26: over all nodes, cost * (paths through the node / paths) sums to
\* exactly the average path cost.
C26_ContributionsEqualAverage ==
    (baseline # EmptyDict /\ Len(all_paths) >= 1) =>
        FracEq(FracSum([i \in 1..Len(G.nodes) |->
                          NodeCostEntry(G, all_paths, baseline.avg,
                                        G.nodes[i]).contribution]),
               baseline.avg)

\* A graph with a cycle, and a node with a cost that lies on no path.
C26_Witness ==
    /\ HasCycle(G)
    /\ apc = "breakdown"
    /\ baseline.avg.num > 0
    /\ \E i \in 1..Len(node_costs) : node_costs[i].contribution.num = 0
    /\ \E i \in 1..Len(node_costs) : node_costs[i].contribution.num > 0

\* C28: for every hit rate the blended cost of the cache simulation lies
\* between 0 and the baseline average cost, and the reported cost reduction
\* is at most 100 percent.
C28_BlendedCostBounded ==
    \A i \in 1..Len(cache_rows) :
        baseline.avg.num > 0 =>
            /\ FracLe(Frac(0, 1), cache_rows[i].cached_cost)
            /\ FracLe(cache_rows[i].cached_cost, baseline.avg)
            /\ FracLe(cache_rows[i].cost_reduction_pct, Frac(100, 1))

\* The mean over the enumerated paths of the path totals of attr, with the
\* value of node n scaled by mult hundredths.
RescaledMean(attr, n, mult) ==
    Frac(Total([i \in 1..Len(all_paths) |->
                   SumSeq([v \in NodeSet(G) |->
                              IF v = n THEN mult * attr[v] ELSE 100 * attr[v]],
                          all_paths[i])]),
         100 * Len(all_paths))

\* The primary bottleneck is on every enumerated path.
BottleneckOnEveryPath ==
    \A i \in 1..Len(all_paths) : InPath(bottleneck_node, all_paths[i])

\* C27: the impact analysis takes the bottleneck node's whole saving off
\* the average path time and cost, without scaling by the share of paths
\* through the node; on the reference graph the primary bottleneck is on
\* every enumerated path, and whenever it is, the result is the mean over
\* the paths recomputed with the node's new values.
C27_UnscaledImpact ==
    (impact # << >> /\ Len(all_paths) >= 1) =>
        LET b        == bottleneck_node
            avg_time == Mean([i \in 1..Len(all_paths) |-> PathTime(G, all_paths[i])])
            avg_cost == Mean([i \in 1..Len(all_paths) |-> PathCost(G, all_paths[i])])
        IN  /\ \A i \in 1..Len(impact) :
                  /\ FracEq(impact[i].avg_new_time,
                            FracSub(avg_time,
                                    Frac((100 - Scenarios[i].time_mult) * G.time[b], 100)))
                  /\ FracEq(impact[i].avg_new_cost,
                            FracSub(avg_cost,
                                    Frac((100 - Scenarios[i].cost_mult) * G.cost[b], 100)))
            /\ IsReference(G) => BottleneckOnEveryPath
            /\ BottleneckOnEveryPath =>
                  \A i \in 1..Len(impact) :
                      /\ FracEq(impact[i].avg_new_time,
                                RescaledMean(G.time, b, Scenarios[i].time_mult))
                      /\ FracEq(impact[i].avg_new_cost,
                                RescaledMean(G.cost, b, Scenarios[i].cost_mult))

\* The reference graph: quality_check (500 ms, 0.003) with 80% caching
\* brings the average path time from 9530/3 ms to 8330/3 ms and the average
\* cost from 65/3 to 289/15 thousandths.
C27_Witness ==
    /\ IsReference(G)
    /\ apc = "impact"
    /\ bottleneck_node = "quality_check"
    /\ Len(all_paths) = 3
    /\ impact[1].avg_new_time = [num |-> 8330, den |-> 3]
    /\ impact[1].avg_new_cost = [num |-> 289, den |-> 15]

\* The nodes visited, in order, by an execution through one specialist.
VisitsThrough(specialist) ==
    << "intent_classifier", "context_enricher", specialist,
       "quality_check", "response_formatter" >>

\* C23: with the node steps as implemented the retry transition is never
\* taken: once a specialist has run the confidence is a constant of at
\* least 0.88 and quality_check leaves it there, quality_check always
\* routes to response_formatter, and a completed execution has visited
\* intent_classifier, context_enricher, one specialist, quality_check and
\* response_formatter, in that order, before END.
C23_RetryUnreachable ==
    /\ edge # <<"quality_check", "intent_classifier">>
    /\ RetriesTaken = 0
    /\ (\E i \in 1..Len(trace) : trace[i] \in Specialists) =>
          /\ state.confidence \in {88, 90, 92}
          /\ state.confidence >= 88
    /\ (trace # << >> /\ trace[Len(trace)] = "quality_check") =>
          node = "response_formatter"
    /\ \E a \in Specialists :
          /\ Len(trace) <= 5
          /\ trace = SubSeq(VisitsThrough(a), 1, Len(trace))
          /\ status = "done" => (trace = VisitsThrough(a) /\ node = END)
    /\ status \in {"running", "done"}

\* A technical query, whose specialist writes the lowest confidence (0.88),
\* has passed quality_check and completed.
C23_Witness ==
    /\ status = "done"
    /\ node = END
    /\ trace = VisitsThrough("technical_agent")
    /\ state.confidence = 88
    /\ edge = <<"response_formatter", END>>

\* The node of the workflow graph an engine node stands for: the graph's
\* input and output are the engine's START and END.
GraphNode(n) ==
    IF n = START THEN "input" ELSE IF n = END THEN "output" ELSE n

\* A path from input to output along edges of g without a repeated node:
\* what nx.all_simple_paths(g, 'input', 'output') enumerates.
IsSimplePath(g, path) ==
    /\ Len(path) >= 2
    /\ path[1] = "input"
    /\ path[Len(path)] = "output"
    /\ NoRepeat(path)
    /\ \A i \in 1..(Len(path) - 1) : <<path[i], path[i + 1]>> \in EdgeSet(g)

\* C24: the execution refines the workflow graph: every transition taken is
\* a directed edge of the graph, and for a completed execution path_taken
\* with input prepended and output appended is one of the graph's simple
\* paths from input to output, whose PathCost from the cost_per_call
\* attributes is the accumulated cost.
C24_RefinesWorkflowGraph ==
    /\ edge # << >> =>
          <<GraphNode(edge[1]), GraphNode(edge[2])>> \in EdgeSet(ReferenceGraph)
    /\ status = "done" =>
          LET path == <<"input">> \o state.path_taken \o <<"output">> IN
          /\ IsSimplePath(ReferenceGraph, path)
          /\ \E a \in Specialists : path = PathThrough(a)
          /\ state.path_taken = trace
          /\ state.cost = PathCost(ReferenceGraph, path)

\* A completed billing execution: cost 0.002 + 0 + 0.015 + 0.003 + 0.001.
C24_Witness ==
    /\ status = "done"
    /\ <<"input">> \o state.path_taken \o <<"output">> = PathThrough("billing_agent")
    /\ state.cost = 21
    /\ PathCost(ReferenceGraph, PathThrough("billing_agent")) = 21

\* The keywords of the two tested intents.
BillingKeywords == {KwBill, KwCharge, KwPayment}

TechnicalKeywords == {KwTechnical, KwError, KwBug}

\* Some keyword of kws occurs in the query, whatever its case.
Mentions(query, kws) == \E kw \in kws : Contains(Lower(query), kw)

\* C29: the classifier is total and prioritised: the intent written is one
\* of billing, technical and account; a query with a billing keyword (bill,
\* charge, payment) is billing even when it has a technical keyword
\* (technical, error, bug) too; a query with a technical keyword only is
\* technical; a query with none of the keywords is account.
C29_ClassifierTotalPrioritised ==
    /\ trace = << >> => state.intent = ""
    /\ trace # << >> =>
          /\ state.intent \in {"billing", "technical", "account"}
          /\ Mentions(state.query, BillingKeywords) => state.intent = "billing"
          /\ (~ Mentions(state.query, BillingKeywords)
                /\ Mentions(state.query, TechnicalKeywords)) =>
                state.intent = "technical"
          /\ (~ Mentions(state.query, BillingKeywords)
                /\ ~ Mentions(state.query, TechnicalKeywords)) =>
                state.intent = "account"

\* "technical payment" has a keyword of either kind and is billing.
C29_Witness ==
    /\ state.query = JoinWords(<<KwTechnical, KwPayment>>)
    /\ trace = <<"intent_classifier">>
    /\ state.intent = "billing"

\* The step leaves the fields of the state named in fields as they are.
Keeps(fields) == \A f \in fields : state'[f] = state[f]

\* C30: each node step changes only its own fields: context_enricher
\* leaves cost, intent, response and confidence unchanged, quality_check
\* leaves intent, context, response and confidence unchanged, only a
\* specialist or response_formatter writes response, only a specialist
\* writes confidence, and no step changes query or user_id.
C30_FrameConditions ==
    [][ /\ Keeps({"query", "user_id"})
        /\ node = "context_enricher" =>
              Keeps({"cost", "intent", "response", "confidence"})
        /\ node = "quality_check" =>
              Keeps({"intent", "context", "response", "confidence"})
        /\ ~ Keeps({"response"}) => node \in Specialists \cup {"response_formatter"}
        /\ ~ Keeps({"confidence"}) => node \in Specialists
      ]_vars

\* An account execution after context_enricher, account_agent and
\* quality_check have run: the context is loaded, the confidence is the
\* specialist's and the cost is 0.002 + 0.012 + 0.003.
C30_Witness ==
    /\ trace = <<"intent_classifier", "context_enricher", "account_agent",
                 "quality_check">>
    /\ node = "response_formatter"
    /\ state.context = LoadedContext
    /\ state.intent = "account"
    /\ state.confidence = 90
    /\ state.cost = 17
    /\ state.response = <<"Account management for: ">> \o state.query

\* The specialists run so far.
SpecialistsRun == { trace[i] : i \in { k \in 1..Len(trace) : trace[k] \in Specialists } }

\* Every completed visit of quality_check was followed by intent_classifier.
AlwaysRoutedBack ==
    LET run == Append(trace, node) IN
    \A i \in 1..(Len(run) - 1) :
        run[i] = "quality_check" => run[i + 1] = "intent_classifier"

\* C25: a retry makes no progress: the query is unchanged and the intent is
\* a function of it, and each specialist writes a fixed confidence, so once
\* quality_check has routed back to intent_classifier the same specialist
\* is selected again, quality_check is reached with the same confidence,
\* every visit of quality_check routes back, and the execution never
\* completes.
C25_RetryMakesNoProgress ==
    /\ [](RetriesTaken >= 1 =>
            /\ Cardinality(SpecialistsRun) = 1
            /\ state.intent = Classify(state.query)
            /\ \A a \in SpecialistsRun :
                  /\ a = route_to_agent(state)
                  /\ state.confidence = StubbedConfidence[a]
                  /\ state.confidence < 50
            /\ AlwaysRoutedBack
            /\ status # "done")
    /\ [][RetriesTaken >= 1 =>
            /\ state'.query = state.query
            /\ state'.intent = state.intent
            /\ state'.confidence = state.confidence
            /\ RetriesTaken' >= 1]_vars

\* A technical query (stubbed confidence 0.49) on its third visit of
\* quality_check, after two retries.
C25_Witness ==
    /\ RetriesTaken = 2
    /\ node = "quality_check"
    /\ Len(trace) = 11
    /\ SpecialistsRun = {"technical_agent"}
    /\ state.confidence = 49

=============================================================================
